---- MODULE Spec2Model ----
(***************************************************************************)
(* FunctionMaxima<A, V> (function_maxima.h): a partial function A -> V     *)
(* kept in three std::set indexes                                           *)
(*   fun    : points ordered by argument,                                   *)
(*   maxima : copies of the points that are local maxima, ordered by        *)
(*            (value descending, argument ascending),                       *)
(*   range  : weak_ptr handles to the value cells, ordered by value.        *)
(* A value cell (shared_ptr<V>) is written <<value, k>>: k tells apart      *)
(* cells that hold equal values.  A cell is alive while some point of some  *)
(* container (in fun or in maxima) holds it.  A handle in range whose cell  *)
(* has died is written <<value, 0>>: it sits in the set where the value it  *)
(* was inserted under put it, and expired handles of one value are counted  *)
(* once.                                                                    *)
(* A std::set is a sequence kept in comparator order; an iterator into      *)
(* maxima is the entry it points to (NoPt is mx_end()), an iterator into    *)
(* range is the handle it points to (NoCell is rg_end()), an iterator into  *)
(* fun is an index (0 is end()).                                            *)
(* A user comparison may throw: every operation takes the place t where     *)
(* the throw happens ("none": no throw).  A place can throw only when the   *)
(* call made there performs at least one comparison.                        *)
(***************************************************************************)
EXTENDS Integers, Sequences, FiniteSets, TLC

MaxArg == 3
MaxVal == 2
MaxDup == 3
MaxCopyArg == 2

Args == 1..MaxArg
Values == 1..MaxVal
Containers == {"f", "g"}

Cells == Values \X (1..MaxDup)
NullCell == <<0, 0>>
NoCell == <<0, 1>>
NoPt == [arg |-> 0, val |-> NoCell]

VARIABLES fun, maxima, range, ref, threw, fault, last

vars == <<fun, maxima, range, ref, threw, fault, last>>

-----------------------------------------------------------------------------
(* sequences *)

InsertAt(s, i, x) == SubSeq(s, 1, i - 1) \o <<x>> \o SubSeq(s, i, Len(s))

RemoveAt(s, i) == SubSeq(s, 1, i - 1) \o SubSeq(s, i + 1, Len(s))

Min(S) == CHOOSE x \in S : \A y \in S : x <= y

-----------------------------------------------------------------------------
(* point_type and the three orders *)

point_type(a, cell) == [arg |-> a, val |-> cell]

value(p) == p.val[1]

arg(p) == p.arg

argument_order(x, y) == arg(x) < arg(y)

\* the order by value alone, without the tie-break on the argument
maxima_order_by_value(x, y) == value(y) < value(x)

maxima_order(x, y) ==
    \/ value(y) < value(x)
    \/ /\ ~(value(x) < value(y))
       /\ ~(value(y) < value(x))
       /\ arg(x) < arg(y)

range_order(x, y) == x[1] < y[1]

-----------------------------------------------------------------------------
(* shared_ptr / weak_ptr *)

\* the cells that have at least one strong owner, given every container's
\* fun and maxima
LiveCells(FF, MM) ==
    ( UNION {{FF[c][i].val : i \in 1..Len(FF[c])} : c \in Containers}
      \cup
      UNION {{MM[c][i].val : i \in 1..Len(MM[c])} : c \in Containers} )
    \ {NullCell}

\* weak_ptr::lock(): the cell when it is alive, a null pointer otherwise
lock(h, live) == IF h \in live THEN h ELSE NullCell

\* the handles of R once the cells outside live have died
expire(R, live) == (R \cap live) \cup {<<h[1], 0>> : h \in R \ live}

\* The address of a cell is immaterial: after every operation the cells of
\* each value are renumbered 1, 2, ... (those the first container refers to
\* first), so that states differing only in addresses are one state.
\* held is the set of cells in use, first the set of those "f" refers to.
renumber(held, first) ==
    LET key(x) == IF x \in first THEN x[2] ELSE MaxDup + x[2]
    IN  [cell \in held |->
            IF cell[2] = 0 THEN cell
            ELSE <<cell[1], 1 + Cardinality({x \in held : /\ x[1] = cell[1]
                                                          /\ x[2] # 0
                                                          /\ key(x) < key(cell)})>>]

\* std::make_shared<V>(v): a cell no handle refers to
make_shared(v, used) ==
    IF \E k \in 1..MaxDup : <<v, k>> \notin used
    THEN <<v, Min({k \in 1..MaxDup : <<v, k>> \notin used})>>
    ELSE NoCell

-----------------------------------------------------------------------------
(* function_set: std::set<point_type, argument_order> *)

\* a lookup that stops at the first point not less than a and does not
\* check that a is not less than it
find_lower_bound(F, a) ==
    IF \E i \in 1..Len(F) : ~(arg(F[i]) < a)
    THEN Min({i \in 1..Len(F) : ~(arg(F[i]) < a)})
    ELSE 0

\* fun.find(a): transparent lookup by argument, 0 is end()
find(F, a) ==
    IF \E i \in 1..Len(F) : ~(arg(F[i]) < a) /\ ~(a < arg(F[i]))
    THEN CHOOSE i \in 1..Len(F) : ~(arg(F[i]) < a) /\ ~(a < arg(F[i]))
    ELSE 0

\* an insertion that ignores the order of the arguments
fun_insert_at_end(F, p) == Append(F, p)

\* fun.insert(p): refused when an equivalent point is present
fun_insert(F, p) ==
    IF \E i \in 1..Len(F) : ~argument_order(F[i], p) /\ ~argument_order(p, F[i])
    THEN F
    ELSE IF \E i \in 1..Len(F) : argument_order(p, F[i])
         THEN InsertAt(F, Min({i \in 1..Len(F) : argument_order(p, F[i])}), p)
         ELSE Append(F, p)

-----------------------------------------------------------------------------
(* maxima_set: std::set<point_type, maxima_order> *)

\* maxima.find(pt): the entry equivalent to pt, NoPt is mx_end()
mx_find(M, pt) ==
    IF \E i \in 1..Len(M) : ~maxima_order(M[i], pt) /\ ~maxima_order(pt, M[i])
    THEN M[CHOOSE i \in 1..Len(M) : ~maxima_order(M[i], pt) /\ ~maxima_order(pt, M[i])]
    ELSE NoPt

\* maxima.insert(pt): refused when an equivalent entry is present
mx_insert(M, pt) ==
    IF mx_find(M, pt) # NoPt
    THEN M
    ELSE IF \E i \in 1..Len(M) : maxima_order(pt, M[i])
         THEN InsertAt(M, Min({i \in 1..Len(M) : maxima_order(pt, M[i])}), pt)
         ELSE Append(M, pt)

\* an erase that also drops every entry after the one pointed to
mx_erase_from(M, e) ==
    IF \E i \in 1..Len(M) : M[i] = e
    THEN SubSeq(M, 1, (CHOOSE i \in 1..Len(M) : M[i] = e) - 1)
    ELSE M

\* maxima.erase(iterator): the entry the iterator points to is removed
mx_erase(M, e) ==
    IF \E i \in 1..Len(M) : M[i] = e
    THEN RemoveAt(M, CHOOSE i \in 1..Len(M) : M[i] = e)
    ELSE M

\* point_type::replace_value through an iterator into maxima
mx_replace_value(M, e, cell) ==
    [i \in 1..Len(M) |-> IF M[i] = e THEN point_type(arg(e), cell) ELSE M[i]]

-----------------------------------------------------------------------------
(* range_set: std::set<std::weak_ptr<V>, range_order> *)
(* Comparing an expired handle is the failed assert of range_order (a null  *)
(* dereference without asserts).  A lookup visits the expired node when it  *)
(* is the only node or sits where the value looked up belongs; otherwise it *)
(* may or may not visit it, and when it does not it goes on among the live  *)
(* handles.                                                                 *)

\* a lookup of one of the values vs in R is bound to compare an expired handle
must_visit_expired(R, live, vs) ==
    /\ R \ live # {}
    /\ \/ R \cap live = {}
       \/ \E h \in R \ live : h[1] \in vs

\* rg_find(v) among the handles the lookup can compare
rg_find(R, v) ==
    IF \E h \in R : ~(h[1] < v) /\ ~(v < h[1])
    THEN CHOOSE h \in R : ~(h[1] < v) /\ ~(v < h[1])
    ELSE NoCell

\* range.insert(v_ptr): refused when an equivalent handle is present
rg_insert(R, cell) ==
    IF \E h \in R : ~range_order(h, cell) /\ ~range_order(cell, h)
    THEN R
    ELSE R \cup {cell}

\* an eviction that never takes place
rg_keep(R, h, live) == R

\* if (h->expired()) range.erase(h)
rg_erase_expired(R, h, live) == IF h \notin live THEN R \ {h} ELSE R

-----------------------------------------------------------------------------
(* the local-maximum checks *)

left_checker(F, it) ==
    IF it = 1 THEN TRUE
    ELSE ~(value(F[it]) < value(F[it - 1]))

right_checker(F, it) ==
    IF it + 1 > Len(F) THEN TRUE
    ELSE ~(value(F[it]) < value(F[it + 1]))

maximum_check(F, it) == left_checker(F, it) /\ right_checker(F, it)

\* left_check that steps over to_erase without looking for the left end
left_check_no_end(F, it, to_erase) ==
    IF it = 1 THEN TRUE
    ELSE IF it - 1 = to_erase
         THEN ~(value(F[it]) < value(F[IF it - 2 >= 1 THEN it - 2 ELSE it - 1]))
         ELSE ~(value(F[it]) < value(F[it - 1]))

\* to_erase = 0 stands for no removal
left_check(F, it, to_erase) ==
    IF it = 1 THEN TRUE
    ELSE IF it - 1 = to_erase
         THEN IF it - 1 = 1 THEN TRUE
              ELSE ~(value(F[it]) < value(F[it - 2]))
         ELSE ~(value(F[it]) < value(F[it - 1]))

\* right_check without the step over to_erase
right_check_no_skip(F, it, to_erase) ==
    IF it + 1 > Len(F) THEN TRUE
    ELSE ~(value(F[it]) < value(F[it + 1]))

right_check(F, it, to_erase) ==
    IF it + 1 > Len(F) THEN TRUE
    ELSE IF it + 1 = to_erase
         THEN IF it + 2 > Len(F) THEN TRUE
              ELSE ~(value(F[it]) < value(F[it + 2]))
         ELSE ~(value(F[it]) < value(F[it + 1]))

is_maximum(F, it, to_erase) == left_check(F, it, to_erase) /\ right_check(F, it, to_erase)

-----------------------------------------------------------------------------
(* what an operation leaves behind: the container's three indexes and how   *)
(* the call ended ("ok", "noop", "throw": a comparison threw, "fault": the  *)
(* program was stopped by a failed assert or a null dereference, "na": the  *)
(* place t is not reached or compares nothing)                              *)

Out(F, M, R, res) == [fun |-> F, maxima |-> M, range |-> R, res |-> res]

NA == Out(<<>>, <<>>, {}, "na")

When(cond, out) == IF cond THEN out ELSE NA

\* an outcome with the steps the call has taken
Steps(out, steps) ==
    [fun |-> out.fun, maxima |-> out.maxima, range |-> out.range, res |-> out.res,
     steps |-> steps]

\* one step of a call, made when cond holds: the place in the code, what it
\* does to an index ("insert", "erase", "write" or "none") and, for the write
\* to a point and the removal of its maxima entry, the value concerned
Do(cond, place, effect, val) ==
    IF cond THEN <<[place |-> place, effect |-> effect, val |-> val]>> ELSE <<>>

\* the removals of set_value made before the value is written
set_value_order_erase_first(lookup, staged_range, write, checks, staged, final) ==
    lookup \o final \o staged_range \o write \o checks \o staged

\* the order of the stages of set_value: the lookups (lines 265-279), the
\* insertion into range (288), the write to fun (293-297), the maximum checks
\* (311-327), the insertions into maxima (387-401) and the removals (438-451)
set_value_order(lookup, staged_range, write, checks, staged, final) ==
    lookup \o staged_range \o write \o checks \o staged \o final

\* the point of erase removed from fun before the insertions into maxima
erase_order_erase_first(lookup, staged, final) == lookup \o final \o staged

\* the order of the stages of erase: the lookups (lines 457-460), the checks
\* and insertions into maxima (462-484) and the removals (493-501)
erase_order(lookup, staged, final) == lookup \o staged \o final

\* a point whose value pointer is null lies within two places of position it
null_near(F, it) ==
    \E i \in 1..Len(F) : /\ i # it
                         /\ i >= it - 2
                         /\ i <= it + 2
                         /\ F[i].val = NullCell

\* the early return of set_value: neither value is less than the other
same_value_never(x, v) == FALSE

same_value(x, v) == ~(x < v) /\ ~(v < x)

\* the places of set_value where a comparison is made; "none": no comparison
\* throws, "abort": the call compares an expired handle or reads a null value
SetValueThrows ==
    {"find", "mx_find", "cmp", "rg_find", "rg_find_old", "rg_insert", "fun_insert",
     "maximum_check", "mx_find_l", "mx_find_r", "mx_insert", "mx_insert_l", "mx_insert_r",
     "none", "abort"}

\* the outcome of set_value(a, v) on container c for every place t of places
set_value(c, a, v, places) ==
    LET F == fun[c]
        M == maxima[c]
        R == range[c]
        live0 == LiveCells(fun, maxima)
        used == live0 \cup UNION {range[d] : d \in Containers}
        it == find(F, a)
        found == it # 0
        max_position == IF found THEN mx_find(M, F[it]) ELSE NoPt
        equal == found /\ same_value(value(F[it]), v)
        \* the handles a lookup in range can compare
        Rc == R \cap live0
        new_val_it == rg_find(Rc, v)
        new_value == new_val_it # NoCell
        v_ptr_old == IF found THEN rg_find(Rc, value(F[it])) ELSE NoCell
        v_ptr == IF new_value THEN lock(new_val_it, live0) ELSE make_shared(v, used)
        R1 == IF rg_insert(Rc, v_ptr) = Rc THEN R ELSE R \cup {v_ptr}
        val_ins_true == R1 # R
        F1 == IF found THEN [F EXCEPT ![it].val = v_ptr]
                       ELSE fun_insert(F, point_type(a, v_ptr))
        it1 == find(F1, a)
        left_exist == it1 # 1
        right_exist == it1 + 1 <= Len(F1)
        left == it1 - 1
        right == it1 + 1
        will_be_max == maximum_check(F1, it1)
        will_be_max_l == IF left_exist THEN maximum_check(F1, left) ELSE FALSE
        will_be_max_r == IF right_exist THEN maximum_check(F1, right) ELSE FALSE
        was_maximum == max_position # NoPt
        max_position_l == IF left_exist THEN mx_find(M, F1[left]) ELSE NoPt
        max_position_r == IF right_exist THEN mx_find(M, F1[right]) ELSE NoPt
        was_maximum_l == max_position_l # NoPt
        was_maximum_r == max_position_r # NoPt
        should_be_inserted == will_be_max
        specific_erase == will_be_max /\ was_maximum
        should_be_erased == ~will_be_max /\ was_maximum
        should_be_inserted_l == left_exist /\ will_be_max_l /\ ~was_maximum_l
        should_be_erased_l == left_exist /\ ~will_be_max_l /\ was_maximum_l
        should_be_inserted_r == right_exist /\ will_be_max_r /\ ~was_maximum_r
        should_be_erased_r == right_exist /\ ~will_be_max_r /\ was_maximum_r
        M1 == IF should_be_inserted THEN mx_insert(M, F1[it1]) ELSE M
        inserted == IF should_be_inserted THEN mx_find(M1, F1[it1]) ELSE NoPt
        M2 == IF should_be_inserted_l THEN mx_insert(M1, F1[left]) ELSE M1
        inserted_l == IF should_be_inserted_l THEN mx_find(M2, F1[left]) ELSE NoPt
        M3 == IF should_be_inserted_r THEN mx_insert(M2, F1[right]) ELSE M2
        \* the catch blocks: Mr is maxima after the staged insertions were
        \* taken back, outer tells the catch of lines 418-436 from that of 331-340
        restore(Mr, outer) ==
            LET liveNow == LiveCells([fun EXCEPT ![c] = F1], [maxima EXCEPT ![c] = Mr])
                old == lock(v_ptr_old, liveNow)
                Mr2 == IF outer /\ will_be_max /\ was_maximum
                       THEN mx_replace_value(Mr, max_position, old)
                       ELSE Mr
                F2 == IF found THEN [F1 EXCEPT ![it1].val = old] ELSE RemoveAt(F1, it1)
                R2 == IF val_ins_true THEN R1 \ {v_ptr} ELSE R1
            IN  IF found /\ v_ptr_old = NoCell
                THEN Out(F, M, R, "fault")
                ELSE Out(F2, Mr2, R2, "throw")
        M4 == IF should_be_erased \/ specific_erase THEN mx_erase(M3, max_position) ELSE M3
        M5 == IF should_be_erased_l THEN mx_erase(M4, max_position_l) ELSE M4
        M6 == IF should_be_erased_r THEN mx_erase(M5, max_position_r) ELSE M5
        liveEnd == LiveCells([fun EXCEPT ![c] = F1], [maxima EXCEPT ![c] = M6])
        R3 == IF found THEN rg_erase_expired(R1, v_ptr_old, liveEnd) ELSE R1
        steps ==
            set_value_order(
                Do(TRUE, "find", "none", 0)
                  \o Do(found, "mx_find", "none", 0)
                  \o Do(found, "cmp", "none", 0)
                  \o Do(TRUE, "rg_find", "none", 0)
                  \o Do(found, "rg_find_old", "none", 0),
                Do(TRUE, "rg_insert", IF val_ins_true THEN "insert" ELSE "none", 0),
                Do(found, "replace_value", "write", v)
                  \o Do(~found, "fun_insert", "insert", 0),
                Do(TRUE, "maximum_check", "none", 0)
                  \o Do(left_exist, "mx_find_l", "none", 0)
                  \o Do(right_exist, "mx_find_r", "none", 0),
                Do(should_be_inserted, "mx_insert", IF M1 # M THEN "insert" ELSE "none", 0)
                  \o Do(should_be_inserted_l, "mx_insert_l",
                        IF M2 # M1 THEN "insert" ELSE "none", 0)
                  \o Do(should_be_inserted_r, "mx_insert_r",
                        IF M3 # M2 THEN "insert" ELSE "none", 0),
                Do(should_be_erased, "mx_erase", "erase", value(max_position))
                  \o Do(should_be_erased_l, "mx_erase_l", "erase", 0)
                  \o Do(should_be_erased_r, "mx_erase_r", "erase", 0)
                  \o Do(specific_erase, "mx_erase", "erase", value(max_position))
                  \o Do(found /\ v_ptr_old \notin liveEnd, "rg_erase", "erase", 0))
    IN
    [t \in places |->
    IF t = "find" THEN When(F # <<>>, Out(F, M, R, "throw"))
    ELSE IF found /\ F[it].val = NullCell THEN When(t = "abort", Out(F, M, R, "fault"))
    ELSE IF t = "mx_find" THEN When(found /\ M # <<>>, Out(F, M, R, "throw"))
    ELSE IF t = "cmp" THEN When(found, Out(F, M, R, "throw"))
    ELSE IF equal THEN When(t = "none", Out(F, M, R, "noop"))
    ELSE IF t = "abort" /\ R \ live0 # {} THEN Out(F, M, R, "fault")
    ELSE IF must_visit_expired(R, live0, IF found THEN {v, value(F[it])} ELSE {v}) THEN NA
    ELSE IF t = "rg_find" THEN When(Rc # {}, Out(F, M, R, "throw"))
    ELSE IF t = "rg_find_old" THEN When(found /\ Rc # {}, Out(F, M, R, "throw"))
    ELSE IF v_ptr = NoCell THEN NA
    ELSE IF t = "rg_insert" THEN When(Rc # {}, Out(F, M, R, "throw"))
    ELSE IF t = "fun_insert" THEN When(~found /\ F # <<>>, Out(F, M, R, "throw"))
    ELSE IF null_near(F1, it1) THEN When(t = "abort", Out(F, M, R, "fault"))
    ELSE IF t = "maximum_check" THEN When(Len(F1) > 1, Out(F1, M, R1, "throw"))
    ELSE IF t = "mx_find_l" THEN When(left_exist /\ M # <<>>, restore(M, FALSE))
    ELSE IF t = "mx_find_r" THEN When(right_exist /\ M # <<>>, restore(M, FALSE))
    ELSE IF t = "mx_insert" THEN When(should_be_inserted /\ M # <<>>, restore(M, TRUE))
    ELSE IF t = "mx_insert_l"
         THEN When(should_be_inserted_l /\ M1 # <<>>,
                   restore(IF should_be_inserted THEN mx_erase(M1, inserted) ELSE M1, TRUE))
    ELSE IF t = "mx_insert_r"
         THEN When(should_be_inserted_r /\ M2 # <<>>,
                   restore(LET Ml == IF should_be_inserted_l THEN mx_erase(M2, inserted_l) ELSE M2
                           IN  IF should_be_inserted THEN mx_erase(Ml, inserted) ELSE Ml,
                           TRUE))
    ELSE IF t = "none"
         THEN IF found /\ v_ptr_old = NoCell
              THEN Out(F, M, R, "fault")
              ELSE Steps(Out(F1, M6, R3, "ok"), steps)
    ELSE NA]

EraseThrows ==
    {"find", "rg_find", "mx_find", "is_maximum_l", "mx_left", "is_maximum_r", "mx_right",
     "none", "abort"}

\* the outcome of erase(a) on container c for every place t of places
erase(c, a, places) ==
    LET F == fun[c]
        M == maxima[c]
        R == range[c]
        live0 == LiveCells(fun, maxima)
        to_erase == find(F, a)
        found == to_erase # 0
        Rc == R \cap live0
        rg_it == rg_find(Rc, value(F[to_erase]))
        mx_it == mx_find(M, F[to_erase])
        has_left == to_erase # 1
        left == to_erase - 1
        is_max_l == is_maximum(F, left, to_erase)
        M1 == IF has_left /\ is_max_l THEN mx_insert(M, F[left]) ELSE M
        left_mx == IF has_left THEN mx_find(M1, F[left]) ELSE NoPt
        should_erase_left_mx == has_left /\ ~is_max_l /\ left_mx # NoPt
        right == to_erase + 1
        has_right == right <= Len(F)
        is_max_r == is_maximum(F, right, to_erase)
        M2 == IF has_right /\ is_max_r THEN mx_insert(M1, F[right]) ELSE M1
        right_mx == IF has_right THEN mx_find(M2, F[right]) ELSE NoPt
        should_erase_right_mx == has_right /\ ~is_max_r /\ right_mx # NoPt
        \* catch (...) of lines 485-492: Mr is maxima at the throw, lmx and rmx
        \* are left_mx and right_mx as assigned by then
        catch(Mr, lmx, rmx) ==
            IF lmx # NoPt
            THEN Out(F, IF rmx # NoPt THEN mx_erase(mx_erase(Mr, lmx), rmx)
                                      ELSE mx_erase(Mr, lmx), R, "throw")
            ELSE Out(F, Mr, R, "throw")
        M3 == IF mx_it # NoPt THEN mx_erase(M2, mx_it) ELSE M2
        F1 == RemoveAt(F, to_erase)
        live1 == LiveCells([fun EXCEPT ![c] = F1], [maxima EXCEPT ![c] = M3])
        R1 == rg_erase_expired(R, rg_it, live1)
        M4 == IF should_erase_left_mx THEN mx_erase(M3, left_mx) ELSE M3
        M5 == IF should_erase_right_mx THEN mx_erase(M4, right_mx) ELSE M4
        steps ==
            erase_order(
                Do(TRUE, "find", "none", 0)
                  \o Do(TRUE, "rg_find", "none", 0)
                  \o Do(TRUE, "mx_find", "none", 0),
                Do(has_left, "is_maximum_l", "none", 0)
                  \o Do(has_left /\ is_max_l, "mx_insert_l",
                        IF M1 # M THEN "insert" ELSE "none", 0)
                  \o Do(has_left /\ ~is_max_l, "mx_find_l", "none", 0)
                  \o Do(has_right, "is_maximum_r", "none", 0)
                  \o Do(has_right /\ is_max_r, "mx_insert_r",
                        IF M2 # M1 THEN "insert" ELSE "none", 0)
                  \o Do(has_right /\ ~is_max_r, "mx_find_r", "none", 0),
                Do(mx_it # NoPt, "mx_erase", "erase", 0)
                  \o Do(TRUE, "fun_erase", "erase", 0)
                  \o Do(rg_it \notin live1, "rg_erase", "erase", 0)
                  \o Do(should_erase_left_mx, "mx_erase_l", "erase", 0)
                  \o Do(should_erase_right_mx, "mx_erase_r", "erase", 0))
    IN
    [t \in places |->
    IF t = "find" THEN When(F # <<>>, Out(F, M, R, "throw"))
    ELSE IF ~found THEN When(t = "none", Out(F, M, R, "noop"))
    ELSE IF F[to_erase].val = NullCell THEN When(t = "abort", Out(F, M, R, "fault"))
    ELSE IF t = "abort" /\ R \ live0 # {} THEN Out(F, M, R, "fault")
    ELSE IF must_visit_expired(R, live0, {value(F[to_erase])}) THEN NA
    ELSE IF t = "rg_find" THEN When(Rc # {}, Out(F, M, R, "throw"))
    ELSE IF t = "mx_find" THEN When(M # <<>>, Out(F, M, R, "throw"))
    ELSE IF rg_it = NoCell THEN When(t = "abort", Out(F, M, R, "fault"))
    ELSE IF null_near(F, to_erase) THEN When(t = "abort", Out(F, M, R, "fault"))
    ELSE IF t = "is_maximum_l"
         THEN When(has_left /\ (to_erase > 2 \/ to_erase < Len(F)), catch(M, NoPt, NoPt))
    ELSE IF t = "mx_left" THEN When(has_left /\ M # <<>>, catch(M, NoPt, NoPt))
    ELSE IF t = "is_maximum_r"
         THEN When(has_right /\ (to_erase > 1 \/ right < Len(F)), catch(M1, left_mx, NoPt))
    ELSE IF t = "mx_right" THEN When(has_right /\ M1 # <<>>, catch(M1, left_mx, NoPt))
    ELSE IF t = "none" THEN Steps(Out(F1, M5, R1, "ok"), steps)
    ELSE NA]

\* the places where no comparison throws
Quiet == {"none", "abort"}

ValueAtThrows == {"find", "none"}

\* value_at(a): the value, or 0 with InvalidArg
value_at(c, a, places) ==
    LET F == fun[c]
        it == find(F, a)
    IN  [t \in places |->
        IF t = "find" THEN IF F # <<>> THEN [res |-> "throw", ret |-> 0]
                                       ELSE [res |-> "na", ret |-> 0]
        ELSE IF it = 0 THEN [res |-> "InvalidArg", ret |-> 0]
        ELSE IF F[it].val = NullCell THEN [res |-> "fault", ret |-> 0]
        ELSE [res |-> "ok", ret |-> value(F[it])]]

-----------------------------------------------------------------------------
(* the reference partial function: a plain map from arguments to values *)

ref_set(m, a, v) == [x \in (DOMAIN m) \cup {a} |-> IF x = a THEN v ELSE m[x]]

ref_erase(m, a) == [x \in (DOMAIN m) \ {a} |-> m[x]]

EmptyMap == [x \in {} |-> 0]

-----------------------------------------------------------------------------
(* the state machine *)

Init ==
    /\ fun = [c \in Containers |-> <<>>]
    /\ maxima = [c \in Containers |-> <<>>]
    /\ range = [c \in Containers |-> {}]
    /\ ref = [c \in Containers |-> EmptyMap]
    /\ threw = FALSE
    /\ fault = FALSE
    /\ last = [op |-> "init", c |-> "f", res |-> "ok", at |-> "none", ret |-> 0, steps |-> <<>>]

\* the three indexes of every container once the call is over
Settle(FF, MM, RR) ==
    \E live \in {LiveCells(FF, MM)} :
    \E R2 \in {[d \in Containers |-> expire(RR[d], live)]} :
    \E first \in {{FF["f"][i].val : i \in 1..Len(FF["f"])}
                  \cup {MM["f"][i].val : i \in 1..Len(MM["f"])} \cup R2["f"]} :
    \E ren \in {renumber(live \cup {NullCell} \cup UNION {R2[d] : d \in Containers}, first)} :
        IF \A cell \in DOMAIN ren : ren[cell] = cell
        THEN /\ fun' = FF
             /\ maxima' = MM
             /\ range' = R2
        ELSE /\ fun' = [d \in Containers |->
                          [i \in 1..Len(FF[d]) |-> point_type(FF[d][i].arg, ren[FF[d][i].val])]]
             /\ maxima' = [d \in Containers |->
                             [i \in 1..Len(MM[d]) |-> point_type(MM[d][i].arg, ren[MM[d][i].val])]]
             /\ range' = [d \in Containers |-> {ren[h] : h \in R2[d]}]

Apply(c, o) ==
    /\ o.res = "throw" => ~threw
    /\ Settle([fun EXCEPT ![c] = o.fun], [maxima EXCEPT ![c] = o.maxima],
              [range EXCEPT ![c] = o.range])
    /\ threw' = (threw \/ o.res = "throw")
    /\ fault' = (o.res = "fault")

\* outs is set_value(c, a, v)
SetValue(c, a, v, t, outs) ==
    /\ ~fault
    /\ threw => t \in Quiet
    /\ \E o \in {outs[t]} :
           /\ o.res # "na"
           /\ last' = [op |-> "set_value", c |-> c, res |-> o.res, at |-> t, ret |-> 0,
                      steps |-> IF o.res = "ok" THEN o.steps ELSE <<>>]
           /\ ref' = IF o.res \in {"ok", "noop"} THEN [ref EXCEPT ![c] = ref_set(@, a, v)] ELSE ref
           /\ Apply(c, o)

\* outs is erase(c, a)
Erase(c, a, t, outs) ==
    /\ ~fault
    /\ threw => t \in Quiet
    /\ \E o \in {outs[t]} :
           /\ o.res # "na"
           /\ last' = [op |-> "erase", c |-> c, res |-> o.res, at |-> t, ret |-> 0,
                      steps |-> IF o.res = "ok" THEN o.steps ELSE <<>>]
           /\ ref' = IF o.res \in {"ok", "noop"} THEN [ref EXCEPT ![c] = ref_erase(@, a)] ELSE ref
           /\ Apply(c, o)

\* outs is value_at(c, a)
ValueAt(c, a, t, outs) ==
    /\ ~fault
    /\ threw => t \in Quiet
    /\ \E o \in {outs[t]} :
           /\ o.res # "na"
           /\ o.res = "throw" => ~threw
           /\ threw' = (threw \/ o.res = "throw")
           /\ fault' = (o.res = "fault")
           /\ last' = [op |-> "value_at", c |-> c, res |-> o.res, at |-> t, ret |-> o.ret,
                      steps |-> <<>>]
           /\ UNCHANGED <<fun, maxima, range, ref>>

\* dst = src (FunctionMaxima(FunctionMaxima const&), operator=): the three
\* sets are copied, the points of the copy share the cells of the source
Copy(dst, src) ==
    /\ ~fault
    /\ dst # src
    /\ Settle([fun EXCEPT ![dst] = fun[src]], [maxima EXCEPT ![dst] = maxima[src]],
              [range EXCEPT ![dst] = range[src]])
    /\ ref' = [ref EXCEPT ![dst] = ref[src]]
    /\ last' = [op |-> "copy", c |-> dst, res |-> "ok", at |-> "none", ret |-> 0, steps |-> <<>>]
    /\ UNCHANGED <<threw, fault>>

\* the places of S where the call may stop: once the comparator has thrown
\* it throws no more
Places(S) == IF threw THEN S \cap Quiet ELSE S

\* one container; a user comparison throws at most once (a comparator set
\* to throw at one chosen comparison)
Next ==
    \/ \E a \in Args, v \in Values :
          \E outs \in {set_value("f", a, v, Places(SetValueThrows))} :
             \E t \in DOMAIN outs : SetValue("f", a, v, t, outs)
    \/ \E a \in Args :
          \E outs \in {erase("f", a, Places(EraseThrows))} :
             \E t \in DOMAIN outs : Erase("f", a, t, outs)
    \/ \E a \in Args :
          \E outs \in {value_at("f", a, Places(ValueAtThrows))} :
             \E t \in DOMAIN outs : ValueAt("f", a, t, outs)

Spec == Init /\ [][Next]_vars

\* one container, no comparison throws: every call returns
NextReturn ==
    \/ \E a \in Args, v \in Values :
          \E outs \in {set_value("f", a, v, Quiet)} :
             \E t \in Quiet : SetValue("f", a, v, t, outs)
    \/ \E a \in Args :
          \E outs \in {erase("f", a, Quiet)} :
             \E t \in Quiet : Erase("f", a, t, outs)
    \/ \E a \in Args :
          \E outs \in {value_at("f", a, {"none"})} :
             ValueAt("f", a, "none", outs)

SpecReturn == Init /\ [][NextReturn]_vars

\* two containers that are copied from one another, no comparison throws
NextCopy ==
    \/ \E c \in Containers, a \in 1..MaxCopyArg, v \in Values :
          \E outs \in {set_value(c, a, v, Quiet)} :
             \E t \in Quiet : SetValue(c, a, v, t, outs)
    \/ \E c \in Containers, a \in 1..MaxCopyArg :
          \E outs \in {erase(c, a, Quiet)} :
             \E t \in Quiet : Erase(c, a, t, outs)
    \/ \E c \in Containers, a \in 1..MaxCopyArg :
          \E outs \in {value_at(c, a, {"none"})} :
             ValueAt(c, a, "none", outs)
    \/ \E dst \in Containers, src \in Containers : Copy(dst, src)

SpecCopy == Init /\ [][NextCopy]_vars

-----------------------------------------------------------------------------
(* what the read operations show *)

\* begin..end: the points in iteration order, as <<argument, value>>
DomainGraph(c) == [i \in 1..Len(fun[c]) |-> <<arg(fun[c][i]), value(fun[c][i])>>]

\* mx_begin..mx_end
MaximaList(c) == [i \in 1..Len(maxima[c]) |-> <<arg(maxima[c][i]), value(maxima[c][i])>>]

InDomain(c, a) == \E i \in 1..Len(fun[c]) : arg(fun[c][i]) = a

\* the local-maximum predicate of a point of the sequence F
LocalMaximum(F, i) ==
    /\ (i = 1 \/ ~(value(F[i]) < value(F[i - 1])))
    /\ (i = Len(F) \/ ~(value(F[i]) < value(F[i + 1])))

SameIndexes == fun' = fun /\ maxima' = maxima /\ range' = range

-----------------------------------------------------------------------------
\* C1: as long as no call has thrown, the maxima set of the container holds
\* exactly the points of its domain that are local maxima (value not less
\* than at the left and at the right neighbour, a missing neighbour counting
\* as satisfied), each once: none is missing, none is left over for an
\* erased argument, an old value or a point that stopped being a maximum.
C1_MaximaAreLocalMaxima ==
    ~threw =>
        /\ {MaximaList("f")[i] : i \in 1..Len(maxima["f"])}
             = {DomainGraph("f")[i] : i \in {j \in 1..Len(fun["f"]) : LocalMaximum(fun["f"], j)}}
        /\ Len(maxima["f"]) = Cardinality({j \in 1..Len(fun["f"]) : LocalMaximum(fun["f"], j)})

\* an erase has just removed a point and left a domain in which one point is
\* a local maximum and another is not
C1_Witness ==
    /\ ~threw
    /\ last.op = "erase"
    /\ last.res = "ok"
    /\ Len(fun["f"]) = 2
    /\ Len(maxima["f"]) = 1

\* C2: when a comparison throws inside set_value, the three indexes are
\* what they were before the call, wherever the throw happens.
C2_SetValueStrongGuarantee ==
    [][(last'.op = "set_value" /\ threw' # threw) => SameIndexes]_vars

\* C3: when a comparison throws inside erase, the three indexes are what
\* they were before the call.
C3_EraseStrongGuarantee ==
    [][(last'.op = "erase" /\ threw' # threw) => SameIndexes]_vars

\* C4: as long as no call has thrown, the domain is the reference map: the
\* arguments are visited in strictly increasing order (so each occurs once),
\* value_at returns the last value set, size() is the number of arguments.
C4_DomainIsReferenceMap ==
    ~threw =>
        /\ \A i \in 1..Len(fun["f"]) : \A j \in 1..Len(fun["f"]) :
              i < j => arg(fun["f"][i]) < arg(fun["f"][j])
        /\ {arg(fun["f"][i]) : i \in 1..Len(fun["f"])} = DOMAIN ref["f"]
        /\ \A a \in DOMAIN ref["f"] :
              /\ value_at("f", a, {"none"})["none"].res = "ok"
              /\ value_at("f", a, {"none"})["none"].ret = ref["f"][a]
        /\ Len(fun["f"]) = Cardinality(DOMAIN ref["f"])

\* a point was inserted below the others and a value was replaced
C4_Witness ==
    /\ ~threw
    /\ last.op = "set_value"
    /\ last.res = "ok"
    /\ DomainGraph("f") = <<<<1, 2>>, <<2, 1>>, <<3, 2>>>>

\* a call of set_value or erase on container d can end in the failed assert
\* of range_order
CanFault(d) ==
    \/ \E a \in Args, v \in Values : set_value(d, a, v, {"abort"})["abort"].res = "fault"
    \/ \E a \in Args : erase(d, a, {"abort"})["abort"].res = "fault"

\* C5: right after a copy both containers give the same reads; a set_value
\* or erase on one container leaves the reads of the other unchanged, and
\* the other accepts every later call as it did before.
C5_CopiesAreIndependent ==
    [][/\ last'.op = "copy" =>
            /\ DomainGraph("f")' = DomainGraph("g")'
            /\ MaximaList("f")' = MaximaList("g")'
       /\ (last'.op \in {"set_value", "erase"} /\ last'.res \in {"ok", "noop"}) =>
            \A d \in Containers \ {last'.c} :
                /\ DomainGraph(d)' = DomainGraph(d)
                /\ MaximaList(d)' = MaximaList(d)
                /\ CanFault(d)' => CanFault(d)]_vars

\* the point at a has a value equal to v
HasValue(c, a, v) ==
    \E i \in 1..Len(fun[c]) : /\ arg(fun[c][i]) = a
                              /\ fun[c][i].val # NullCell
                              /\ ~(value(fun[c][i]) < v)
                              /\ ~(v < value(fun[c][i]))

\* C6: set_value(a, v) with f(a) equal to v changes none of the three
\* indexes (members and their order) and creates or releases no cell.
C6_SetEqualValueIsNoOp ==
    [][last'.op = "set_value" =>
         \A a \in Args, v \in Values :
            (HasValue("f", a, v) /\ SetValue("f", a, v, "none", set_value("f", a, v, {"none"}))) =>
                /\ SameIndexes
                /\ LiveCells(fun', maxima') = LiveCells(fun, maxima)]_vars

\* set_value has returned early on a plateau of three equal maxima
C6_Witness ==
    /\ last.op = "set_value"
    /\ last.res = "noop"
    /\ MaximaList("f") = <<<<1, 1>>, <<2, 1>>, <<3, 1>>>>

\* C7: value_at(a) raises InvalidArg exactly when a is not in the domain and
\* otherwise returns f(a), leaving the indexes unchanged; no other operation
\* raises InvalidArg.
C7_ValueAt ==
    [][/\ \A a \in Args :
            ValueAt("f", a, "none", value_at("f", a, {"none"})) =>
                /\ (last'.res = "InvalidArg") <=> ~InDomain("f", a)
                /\ InDomain("f", a) =>
                      /\ last'.res = "ok"
                      /\ \E i \in 1..Len(fun["f"]) :
                            arg(fun["f"][i]) = a /\ last'.ret = value(fun["f"][i])
                /\ SameIndexes
       /\ last'.res = "InvalidArg" => last'.op = "value_at"]_vars

\* C8: erase(a) with a outside the domain changes none of the three indexes.
C8_EraseAbsentIsNoOp ==
    [][last'.op = "erase" =>
         \A a \in Args :
            (~InDomain("f", a) /\ Erase("f", a, "none", erase("f", a, {"none"}))) =>
                SameIndexes]_vars

\* erase has returned without a point to remove, on a container that has
\* points on both sides of the argument
C8_Witness ==
    /\ last.op = "erase"
    /\ last.res = "noop"
    /\ {DomainGraph("f")[i][1] : i \in 1..Len(fun["f"])} = {1, 3}
    /\ Len(maxima["f"]) >= 1

\* C9: mx_begin..mx_end is in non-increasing value order, equal values in
\* increasing argument order; two points are equivalent for the maxima order
\* only when their values and their arguments are equal, so no local maximum
\* is kept out of the set by a point with another argument.
C9_MaximaOrder ==
    /\ \A i \in 1..Len(maxima["f"]) : \A j \in 1..Len(maxima["f"]) :
          i < j =>
              \/ value(maxima["f"][j]) < value(maxima["f"][i])
              \/ /\ ~(value(maxima["f"][i]) < value(maxima["f"][j]))
                 /\ arg(maxima["f"][i]) < arg(maxima["f"][j])
    /\ \A i \in 1..Len(fun["f"]) : \A j \in 1..Len(fun["f"]) :
          (~maxima_order(fun["f"][i], fun["f"][j]) /\ ~maxima_order(fun["f"][j], fun["f"][i])) =>
              /\ arg(fun["f"][i]) = arg(fun["f"][j])
              /\ value(fun["f"][i]) = value(fun["f"][j])
    /\ ~threw =>
          \A j \in 1..Len(fun["f"]) :
              LocalMaximum(fun["f"], j) =>
                  \E i \in 1..Len(maxima["f"]) : arg(maxima["f"][i]) = arg(fun["f"][j])

\* two peaks of equal value and a lower maximum at the far end are listed
\* by value, the equal ones by argument
C9_Witness ==
    /\ last.op = "set_value"
    /\ last.res = "ok"
    /\ DomainGraph("f") = <<<<1, 2>>, <<2, 1>>, <<3, 2>>>>
    /\ MaximaList("f") = <<<<1, 2>>, <<3, 2>>>>

\* C10: when a set_value or erase call returns, no container's range holds
\* an expired handle.
C10_NoExpiredHandle ==
    (last.op \in {"set_value", "erase"} /\ last.res \in {"ok", "noop"}) =>
        \A c \in Containers : \A h \in range[c] : h[2] # 0

\* C11: in every container, the value cell of every point of the domain has
\* its handle in the container's range and that handle is upgradable (range
\* holds one handle per value, so two points of equal value share a cell),
\* and every upgradable handle of the range refers to the value cell of a
\* point of that container.
C11_RangeMatchesDomain ==
    ~fault =>
        \A c \in Containers :
            /\ \A i \in 1..Len(fun[c]) :
                  /\ fun[c][i].val \in range[c]
                  /\ fun[c][i].val \in LiveCells(fun, maxima)
            /\ \A h \in range[c] \cap LiveCells(fun, maxima) :
                  \E i \in 1..Len(fun[c]) : fun[c][i].val = h

\* the places of set_value that lie after the rewrite of the point and
\* inside a try block whose handler puts the point back
RestoringPlaces == {"mx_find_l", "mx_find_r", "mx_insert", "mx_insert_l", "mx_insert_r"}

\* C12: when set_value unwinds through a handler after it has rewritten the
\* value of an existing point or inserted a new point, the domain is what
\* it was before the call: the point holds the very cell it held before
\* (never a null pointer), also when it was no local maximum and shared its
\* value with no other point, and a point the call inserted is gone.
C12_ValueSlotRestored ==
    [][(/\ last'.op = "set_value"
        /\ last'.res = "throw"
        /\ last'.at \in RestoringPlaces) => fun' = fun]_vars

\* the arguments next to a, on the left and on the right, in the domain F
Neighbours(F, a) ==
    {arg(F[j]) : j \in {i \in 1..Len(F) : \/ (i < Len(F) /\ arg(F[i + 1]) = a)
                                           \/ (i > 1 /\ arg(F[i - 1]) = a)}}

\* the step leaves the point at every argument other than a as it was, and
\* the maxima entries of every argument other than a and those of near
Frame(a, near) ==
    \A b \in Args \ {a} :
        /\ {p \in {fun'["f"][i] : i \in 1..Len(fun'["f"])} : arg(p) = b}
             = {p \in {fun["f"][i] : i \in 1..Len(fun["f"])} : arg(p) = b}
        /\ b \notin near =>
             {p \in {maxima'["f"][i] : i \in 1..Len(maxima'["f"])} : arg(p) = b}
               = {p \in {maxima["f"][i] : i \in 1..Len(maxima["f"])} : arg(p) = b}

\* C13: a set_value(a, v) or erase(a) that returns changes the maxima
\* entries of no argument other than a and its immediate neighbours in
\* argument order (those of the new domain for set_value, of the old one for
\* erase), and leaves the point at every argument other than a unchanged.
C13_FrameOfMaxima ==
    [][/\ (last'.op = "set_value" /\ last'.res = "ok") =>
            \A a \in Args, v \in Values :
                (/\ a \in DOMAIN ref'["f"]
                 /\ ref'["f"][a] = v
                 /\ SetValue("f", a, v, "none", set_value("f", a, v, {"none"}))) =>
                    Frame(a, Neighbours(fun'["f"], a))
       /\ (last'.op = "erase" /\ last'.res = "ok") =>
            \A a \in Args :
                (/\ a \notin DOMAIN ref'["f"]
                 /\ Erase("f", a, "none", erase("f", a, {"none"}))) =>
                    Frame(a, Neighbours(fun["f"], a))]_vars

\* a set_value has returned on a domain of three points whose first and
\* last points, which are not neighbours, are both maxima
C13_Witness ==
    /\ ~threw
    /\ last.op = "set_value"
    /\ last.res = "ok"
    /\ DomainGraph("f") = <<<<1, 1>>, <<2, 1>>, <<3, 2>>>>
    /\ MaximaList("f") = <<<<3, 2>>, <<1, 1>>>>

\* the domain F without the point at position to_erase (0: no removal)
Without(F, to_erase) == IF to_erase = 0 THEN F ELSE RemoveAt(F, to_erase)

\* the position in Without(F, to_erase) of the point at position it of F
PositionWithout(it, to_erase) == IF to_erase # 0 /\ to_erase < it THEN it - 1 ELSE it

\* C14: for every domain the container reaches, every point it and every
\* other point to_erase (or none), is_maximum(it, to_erase) is the plain
\* local-maximum predicate of it on the domain without to_erase, also when
\* to_erase is the first or the last point and when it has no neighbour
\* left on that side.
C14_IsMaximumSkipsErased ==
    (\A i \in 1..Len(fun["f"]) : fun["f"][i].val # NullCell) =>
        \A it \in 1..Len(fun["f"]) : \A to_erase \in 0..Len(fun["f"]) :
            it # to_erase =>
                is_maximum(fun["f"], it, to_erase)
                  = LocalMaximum(Without(fun["f"], to_erase), PositionWithout(it, to_erase))

\* a domain of three points in which the hint decides: the last point is
\* below the middle one and not below the first, and the middle one is the
\* point to skip; and one of two points where skipping the first leaves the
\* second without a left neighbour
C14_Witness ==
    /\ \/ /\ DomainGraph("f") = <<<<1, 1>>, <<2, 2>>, <<3, 1>>>>
          /\ is_maximum(fun["f"], 3, 2)
          /\ ~is_maximum(fun["f"], 3, 0)
       \/ /\ DomainGraph("f") = <<<<1, 2>>, <<2, 1>>>>
          /\ is_maximum(fun["f"], 2, 1)
          /\ ~is_maximum(fun["f"], 2, 0)
    /\ last.op \in {"set_value", "erase"}

\* the positions of the steps of the last call made at the place p
StepsAt(p) == {i \in 1..Len(last.steps) : last.steps[i].place = p}

\* C15 as stated: in a set_value that returns after replacing the value of a
\* point that was in the maxima set, the old entry of the point is removed
\* from maxima before the value of the point is written.
C15_EntryRemovedBeforeRewrite ==
    (last.op = "set_value" /\ last.res = "ok") =>
        \A i \in StepsAt("replace_value") : \A j \in StepsAt("mx_erase") : j < i

\* C15 amended: in a set_value that returns after replacing the value of a
\* point that was in the maxima set, the value of the point is written
\* first and the old entry of the point is removed from maxima afterwards;
\* the entry removed is a copy that still holds the old value, not the one
\* written, and as long as no call has thrown every entry of maxima holds
\* the value of the point at its argument.
C15_EntryKeepsItsValue ==
    /\ (last.op = "set_value" /\ last.res = "ok") =>
          \A i \in StepsAt("replace_value") : \A j \in StepsAt("mx_erase") :
              /\ i < j
              /\ last.steps[j].val # last.steps[i].val
    /\ ~threw =>
          \A c \in Containers : \A k \in 1..Len(maxima[c]) :
              \E i \in 1..Len(fun[c]) : /\ arg(fun[c][i]) = arg(maxima[c][k])
                                         /\ value(fun[c][i]) = value(maxima[c][k])

\* a set_value has replaced the value of a maximum by a greater value: the
\* point was written, its new entry inserted and its old entry removed
C15_Witness ==
    /\ last.op = "set_value"
    /\ last.res = "ok"
    /\ StepsAt("replace_value") # {}
    /\ StepsAt("mx_insert") # {}
    /\ \E j \in StepsAt("mx_erase") : last.steps[j].val = 1
    /\ DomainGraph("f") = <<<<1, 1>>, <<2, 2>>, <<3, 1>>>>

\* the places where a comparison of the user's arguments or values is made
ComparingPlaces ==
    (SetValueThrows \cup {"is_maximum_l", "is_maximum_r"}) \ Quiet

\* C16: in a set_value or erase that returns, no insertion into range or
\* maxima and no step that can throw comes after the first removal of an
\* entry from maxima, range or fun.
C16_InsertionsBeforeRemovals ==
    (last.op \in {"set_value", "erase"} /\ last.res = "ok") =>
        \A i \in 1..Len(last.steps) : \A j \in 1..Len(last.steps) :
            (i < j /\ last.steps[i].effect = "erase") =>
                /\ last.steps[j].effect # "insert"
                /\ last.steps[j].place \notin ComparingPlaces

\* an erase has inserted a neighbour into maxima and then removed the point
\* and its entry; a set_value has inserted into range and maxima and then
\* removed an entry of a neighbour
C16_Witness ==
    /\ last.res = "ok"
    /\ \/ /\ last.op = "erase"
          /\ \E i \in StepsAt("mx_insert_l") : last.steps[i].effect = "insert"
          /\ StepsAt("mx_erase") # {}
          /\ StepsAt("rg_erase") # {}
       \/ /\ last.op = "set_value"
          /\ \E i \in StepsAt("rg_insert") : last.steps[i].effect = "insert"
          /\ \E i \in StepsAt("mx_insert") : last.steps[i].effect = "insert"
          /\ StepsAt("mx_erase_l") # {}

\* C17: on a container that was never copied, once calls that all returned
\* have erased every argument, fun, maxima and range are empty and no value
\* cell is alive.
C17_EmptyAfterErasingAll ==
    (~threw /\ ~fault /\ fun["f"] = <<>>) =>
        /\ maxima["f"] = <<>>
        /\ range["f"] = {}
        /\ LiveCells(fun, maxima) = {}

\* an erase has removed the last point, its maxima entry and its handle
C17_Witness ==
    /\ ~threw
    /\ last.op = "erase"
    /\ last.res = "ok"
    /\ fun["f"] = <<>>
    /\ StepsAt("mx_erase") # {}
    /\ StepsAt("rg_erase") # {}

====
